---------------------------- MODULE Spec2Model ----------------------------
(***************************************************************************)
(* A model of the quaternion rotation library: Vector3 (src/src/vector3.py),*)
(* Quaternion (src/src/quaternion.py), slerp (src/demo_slerp.py) and        *)
(* get_rotation_axis_and_angle (src/demo_rotate.py).                        *)
(*                                                                         *)
(* Python floats are modelled as decimal floating-point numbers <<m, e>>   *)
(* of value m * 10^e with an 8-digit mantissa (MantMin <= |m| < MantMax,   *)
(* or <<0, 0>> for zero).  Every arithmetic operation rounds its exact     *)
(* result to 8 digits, as a binary64 operation rounds to 53 bits, and a    *)
(* result below the smallest positive float underflows to zero, so that    *)
(* rounding error, cancellation, underflow and the code's 1e-10 / 0.9999   *)
(* thresholds are all present in the model.  The inputs tried stay far     *)
(* below the overflow range of a float.  A Python exception is the value   *)
(* Raise(name), which every caller propagates.                             *)
(***************************************************************************)
EXTENDS Integers, Sequences, FiniteSets, TLC

---------------------------------------------------------------------------
(* Decimal floating point: the arithmetic of Python's float.               *)

MantMin == 10^7
MantMax == 10^8
Limb == 10^4

\* The element of a one-element set.  In The({F(x) : x \in {e}}) the name x is a local
\* variable holding the value of e: e is computed once, however often F reads x.
The(S) == CHOOSE r \in S : TRUE

Abs(n) == IF n < 0 THEN -n ELSE n
Sgn(n) == IF n < 0 THEN -1 ELSE 1

\* The least exponent of an 8-digit mantissa: a result below 10^-324, the smallest
\* positive float, underflows to zero.
MinExponent == -331

\* Round an integer mantissa to 8 digits (half away from zero).
RECURSIVE Round(_, _)
Round(m, e) ==
  The({IF n = 0 THEN <<0, 0>>
       ELSE IF Abs(n) >= MantMax THEN Round(Sgn(n) * ((Abs(n) + 5) \div 10), e + 1)
       ELSE IF Abs(n) < MantMin THEN Round(n * 10, e - 1)
       ELSE IF e < MinExponent THEN <<0, 0>>
       ELSE <<n, e>> : n \in {m}})

\* The float of the decimal literal n * 10^k, e.g. Dec(6438, -4) is 0.6438.
Dec(n, k) == Round(n, k)
FromInt(n) == Round(n, 0)

Zero == <<0, 0>>
One == Dec(1, 0)
Two == Dec(2, 0)
Half == Dec(5, -1)

FNeg(a) == The({<<-x[1], x[2]>> : x \in {a}})
FAbs(a) == The({<<Abs(x[1]), x[2]>> : x \in {a}})
IsZero(a) == a[1] = 0

\* a < b
FLess(a, b) ==
  The({IF x[1] = 0 THEN y[1] > 0
       ELSE IF y[1] = 0 THEN x[1] < 0
       ELSE IF (x[1] < 0) /= (y[1] < 0) THEN x[1] < 0
       ELSE IF x[1] > 0
            THEN x[2] < y[2] \/ (x[2] = y[2] /\ x[1] < y[1])
            ELSE x[2] > y[2] \/ (x[2] = y[2] /\ x[1] < y[1]) : x \in {a}, y \in {b}})

\* a <= b
FLeq(a, b) == ~FLess(b, a)

\* a * b, correctly rounded: the 16-digit product is formed from 4-digit limbs.
FMul(a, b) ==
  The({IF x[1] = 0 \/ y[1] = 0 THEN Zero
       ELSE LET s == Sgn(x[1]) * Sgn(y[1])
                ah == Abs(x[1]) \div Limb
                al == Abs(x[1]) % Limb
                bh == Abs(y[1]) \div Limb
                bl == Abs(y[1]) % Limb
                mid == ah * bl + al * bh + ((al * bl) \div Limb)
            IN IF ah * bh < MantMin
               THEN Round(s * (ah * bh * 100 + (mid \div 100)), x[2] + y[2] + 6)
               ELSE Round(s * (ah * bh * 10 + (mid \div 1000)), x[2] + y[2] + 7)
       : x \in {a}, y \in {b}})

\* hi + lo for non-zero operands with hi[2] >= lo[2], with one guard digit.
AddAligned(hi, lo) ==
  IF hi[2] - lo[2] > 9 THEN hi
  ELSE LET sh == 10^(hi[2] - lo[2])
           lm == Sgn(lo[1]) * ((Abs(lo[1]) * 10 + (sh \div 2)) \div sh)
       IN Round(hi[1] * 10 + lm, hi[2] - 1)

\* a + b
FAdd(a, b) ==
  The({IF x[1] = 0 THEN y
       ELSE IF y[1] = 0 THEN x
       ELSE IF x[2] >= y[2] THEN AddAligned(x, y) ELSE AddAligned(y, x)
       : x \in {a}, y \in {b}})

FSub(a, b) == FAdd(a, FNeg(b))

\* n further digits of the quotient r / b by long division.
RECURSIVE LongDiv(_, _, _, _)
LongDiv(r, b, n, q) ==
  IF n = 0 THEN q
  ELSE The({LongDiv((s % b) * 10, b, n - 1, p * 10 + (s \div b)) : s \in {r}, p \in {q}})

\* a / b for b /= 0, correctly rounded.
FDiv(a, b) ==
  The({IF x[1] = 0 THEN Zero
       ELSE IF Abs(x[1]) < Abs(y[1])
       THEN Round(Sgn(x[1]) * Sgn(y[1]) * LongDiv(Abs(x[1]) * 10, Abs(y[1]), 9, 0),
                  x[2] - y[2] - 9)
       ELSE Round(Sgn(x[1]) * Sgn(y[1]) * LongDiv(Abs(x[1]), Abs(y[1]), 9, 0),
                  x[2] - y[2] - 8)
       : x \in {a}, y \in {b}})

\* The integer square root of n >= 1, by Newton's iteration from above.
RECURSIVE IntSqrt(_, _)
IntSqrt(n, x) ==
  The({The({IF y >= z THEN z ELSE IntSqrt(n, y) : y \in {(z + (n \div z)) \div 2}})
       : z \in {x}})

\* One Newton step for the square root of a from the estimate x.
SqrtStep(a, x) == The({FMul(Half, FAdd(y, FDiv(a, y))) : y \in {x}})

\* math.sqrt(a) for a >= 0: an integer square root refined by two Newton steps.
FSqrt(a) ==
  The({IF x[1] = 0 THEN Zero
       ELSE LET odd == x[2] % 2 /= 0
                m == IF odd THEN x[1] * 10 ELSE x[1]
                e == IF odd THEN x[2] - 1 ELSE x[2]
            IN SqrtStep(x, SqrtStep(x, Round(IntSqrt(m, 31623), e \div 2)))
       : x \in {a}})

\* math.pi
Pi == Dec(31415927, -7)
TwoPi == Dec(62831853, -7)
HalfPi == Dec(15707963, -7)

\* The alternating Taylor series acc + t1 + t2 + ..., t(k+1) = -t(k) * x2 / (n (n+1)),
\* summed until a term no longer changes the sum.
RECURSIVE Series(_, _, _, _)
Series(x2, term, n, acc) ==
  The({The({IF sum = acc THEN acc ELSE Series(x2, u, n + 2, sum) : sum \in {FAdd(acc, u)}})
       : u \in {FDiv(FMul(FNeg(term), x2), FromInt(n * (n + 1)))}})

\* cos and sin on [0, pi/2]
CosKernel(x) == The({Series(y, One, 1, One) : y \in {FMul(x, x)}})
SinKernel(x) ==
  The({IF IsZero(y) THEN Zero ELSE The({Series(y2, y, 2, y) : y2 \in {FMul(y, y)}})
       : y \in {x}})

\* math.cos(x)
RECURSIVE FCos(_)
FCos(x) ==
  The({IF y[1] < 0 THEN FCos(FNeg(y))
       ELSE IF FLess(TwoPi, y) THEN FCos(FSub(y, TwoPi))
       ELSE IF FLess(Pi, y) THEN FCos(FSub(TwoPi, y))
       ELSE IF FLess(HalfPi, y) THEN FNeg(CosKernel(FSub(Pi, y)))
       ELSE CosKernel(y) : y \in {x}})

\* math.sin(x)
RECURSIVE FSin(_)
FSin(x) ==
  The({IF y[1] < 0 THEN FNeg(FSin(FNeg(y)))
       ELSE IF FLess(TwoPi, y) THEN FSin(FSub(y, TwoPi))
       ELSE IF FLess(Pi, y) THEN FNeg(FSin(FSub(y, Pi)))
       ELSE IF FLess(HalfPi, y) THEN SinKernel(FSub(Pi, y))
       ELSE SinKernel(y) : y \in {x}})

\* asin(x) for 0 <= x <= 0.71, by Newton's iteration on sin.
RECURSIVE AsinNewton(_, _, _)
AsinNewton(x, y, n) ==
  IF n = 0 THEN y
  ELSE The({AsinNewton(x, FSub(z, FDiv(FSub(SinKernel(z), x), CosKernel(z))), n - 1)
            : z \in {y}})

AsinKernel(x) ==
  The({IF IsZero(y) THEN Zero
       ELSE AsinNewton(y, FAdd(y, FDiv(FMul(y, FMul(y, y)), FromInt(6))), 4)
       : y \in {x}})

\* math.acos(x) for -1 <= x <= 1; the result is in [0, pi].
FAcos(x) ==
  The({The({IF y[1] < 0 THEN FSub(Pi, r) ELSE r
            : r \in {IF FLess(Dec(7, -1), FAbs(y))
                     THEN AsinKernel(FSqrt(FMul(FSub(One, FAbs(y)), FAdd(One, FAbs(y)))))
                     ELSE FSub(HalfPi, AsinKernel(FAbs(y)))}})
       : y \in {x}})

\* Whether the float is a whole number, and its value as an integer.
IsInt(a) == The({x[2] >= 0 \/ (x[2] >= -7 /\ x[1] % (10 ^ (-x[2])) = 0) : x \in {a}})
ToInt(a) ==
  The({IF x[2] >= 0 THEN x[1] * (10 ^ x[2]) ELSE x[1] \div (10 ^ (-x[2])) : x \in {a}})

RECURSIVE IntPow(_, _)
IntPow(b, n) == IF n = 0 THEN One ELSE FMul(b, IntPow(b, n - 1))

\* base ** exponent for base > 0 and an exponent k / 2^j: whole exponents by repeated
\* multiplication, negative ones by the reciprocal, halves by the square root.
RECURSIVE FPow(_, _)
FPow(base, exponent) ==
  The({IF IsInt(x)
       THEN IF ToInt(x) >= 0 THEN IntPow(b, ToInt(x)) ELSE FDiv(One, IntPow(b, -ToInt(x)))
       ELSE FPow(FSqrt(b), FAdd(x, x)) : b \in {base}, x \in {exponent}})

---------------------------------------------------------------------------
(* Values.  A raised exception is a value of its own; an operation that    *)
(* receives one from a call it makes returns it (the exception propagates).*)

Raise(name) == [exc |-> name]
IsRaise(r) == "exc" \in DOMAIN r

\* x / y in Python: ZeroDivisionError when y is zero.
CanDivide(y) == ~IsZero(y)

---------------------------------------------------------------------------
(* Vector3                                                                 *)

Vector3(x, y, z) == [x |-> x, y |-> y, z |-> z]

Vector3_copy(self) == The({Vector3(a.x, a.y, a.z) : a \in {self}})

Vector3_add(self, v) ==
  The({Vector3(FAdd(a.x, b.x), FAdd(a.y, b.y), FAdd(a.z, b.z)) : a \in {self}, b \in {v}})

Vector3_subtract(self, v) ==
  The({Vector3(FSub(a.x, b.x), FSub(a.y, b.y), FSub(a.z, b.z)) : a \in {self}, b \in {v}})

Vector3_scale(self, s) ==
  The({Vector3(FMul(k, a.x), FMul(k, a.y), FMul(k, a.z)) : a \in {self}, k \in {s}})

Vector3_inverse(self) == The({Vector3(FNeg(a.x), FNeg(a.y), FNeg(a.z)) : a \in {self}})

length(self) ==
  The({FSqrt(FAdd(FAdd(FMul(a.x, a.x), FMul(a.y, a.y)), FMul(a.z, a.z))) : a \in {self}})

is_zero(self) == The({IsZero(a.x) /\ IsZero(a.y) /\ IsZero(a.z) : a \in {self}})

dot(self, v) ==
  The({FAdd(FAdd(FMul(a.x, b.x), FMul(a.y, b.y)), FMul(a.z, b.z)) : a \in {self}, b \in {v}})

cross(self, v) ==
  The({Vector3(FSub(FMul(a.y, b.z), FMul(a.z, b.y)),
               FSub(FMul(a.z, b.x), FMul(a.x, b.z)),
               FSub(FMul(a.x, b.y), FMul(a.y, b.x))) : a \in {self}, b \in {v}})

\* A slip in normalize: the zero vector is returned unchanged instead of dividing.
normalize_guarded(self) ==
  The({The({IF ~CanDivide(len) THEN a
            ELSE Vector3(FDiv(a.x, len), FDiv(a.y, len), FDiv(a.z, len))
            : len \in {length(a)}}) : a \in {self}})

normalize(self) ==
  The({The({IF ~CanDivide(len) THEN Raise("ZeroDivisionError")
            ELSE Vector3(FDiv(a.x, len), FDiv(a.y, len), FDiv(a.z, len))
            : len \in {length(a)}}) : a \in {self}})

---------------------------------------------------------------------------
(* Quaternion                                                              *)

Quaternion(w, x, y, z) == [w |-> w, x |-> x, y |-> y, z |-> z]

\* Lines 34 and 35: the axis is normalized unless its length is exactly 1.
UnitAxis(axis) == The({IF length(a) /= One THEN normalize(a) ELSE a : a \in {axis}})

from_axis_angle(axis, angle) ==
  The({IF IsRaise(unit) THEN unit
       ELSE Quaternion(FCos(half_angle),
                       FMul(unit.x, FSin(half_angle)),
                       FMul(unit.y, FSin(half_angle)),
                       FMul(unit.z, FSin(half_angle)))
       : unit \in {UnitAxis(axis)}, half_angle \in {FDiv(angle, Two)}})

\* multiply with the sign of one cross term wrong: + self.z*other.y in the x component.
multiply_sign_slip(self, other) ==
  The({Quaternion(
         FSub(FSub(FSub(FMul(a.w, b.w), FMul(a.x, b.x)), FMul(a.y, b.y)), FMul(a.z, b.z)),
         FAdd(FAdd(FAdd(FMul(a.w, b.x), FMul(a.x, b.w)), FMul(a.y, b.z)), FMul(a.z, b.y)),
         FAdd(FAdd(FSub(FMul(a.w, b.y), FMul(a.x, b.z)), FMul(a.y, b.w)), FMul(a.z, b.x)),
         FAdd(FSub(FAdd(FMul(a.w, b.z), FMul(a.x, b.y)), FMul(a.y, b.x)), FMul(a.z, b.w)))
       : a \in {self}, b \in {other}})

multiply(self, other) ==
  The({Quaternion(
         FSub(FSub(FSub(FMul(a.w, b.w), FMul(a.x, b.x)), FMul(a.y, b.y)), FMul(a.z, b.z)),
         FSub(FAdd(FAdd(FMul(a.w, b.x), FMul(a.x, b.w)), FMul(a.y, b.z)), FMul(a.z, b.y)),
         FAdd(FAdd(FSub(FMul(a.w, b.y), FMul(a.x, b.z)), FMul(a.y, b.w)), FMul(a.z, b.x)),
         FAdd(FSub(FAdd(FMul(a.w, b.z), FMul(a.x, b.y)), FMul(a.y, b.x)), FMul(a.z, b.w)))
       : a \in {self}, b \in {other}})

conjugate(self) ==
  The({Quaternion(a.w, FNeg(a.x), FNeg(a.y), FNeg(a.z)) : a \in {self}})

\* self.w**2 + self.x**2 + self.y**2 + self.z**2
SumSquares(self) ==
  The({FAdd(FAdd(FAdd(FMul(a.w, a.w), FMul(a.x, a.x)), FMul(a.y, a.y)), FMul(a.z, a.z))
       : a \in {self}})

inverse(self) ==
  The({The({IF ~CanDivide(norm_squared) THEN Raise("ZeroDivisionError")
            ELSE Quaternion(FDiv(a.w, norm_squared),
                            FDiv(FNeg(a.x), norm_squared),
                            FDiv(FNeg(a.y), norm_squared),
                            FDiv(FNeg(a.z), norm_squared))
            : norm_squared \in {SumSquares(a)}}) : a \in {self}})

\* A slip in transform: the inverse is multiplied on the left, q^-1 * p * q.
transform_reversed(self, v) ==
  The({The({IF IsRaise(inv) THEN inv
            ELSE The({Vector3(r.x, r.y, r.z)
                      : r \in {multiply(multiply(inv, Quaternion(Zero, p.x, p.y, p.z)), a)}})
            : inv \in {inverse(a)}}) : a \in {self}, p \in {v}})

\* A slip in transform: the conjugate stands where the inverse should.
transform_by_conjugate(self, v) ==
  The({The({Vector3(r.x, r.y, r.z)
            : r \in {multiply(multiply(a, Quaternion(Zero, p.x, p.y, p.z)), conjugate(a))}})
       : a \in {self}, p \in {v}})

transform(self, v) ==
  The({The({IF IsRaise(inv) THEN inv
            ELSE The({Vector3(r.x, r.y, r.z)
                      : r \in {multiply(multiply(a, Quaternion(Zero, p.x, p.y, p.z)), inv)}})
            : inv \in {inverse(a)}}) : a \in {self}, p \in {v}})

Quaternion_copy(self) == The({Quaternion(a.w, a.x, a.y, a.z) : a \in {self}})

Quaternion_scale(self, s) ==
  The({Quaternion(FMul(k, a.w), FMul(k, a.x), FMul(k, a.y), FMul(k, a.z))
       : a \in {self}, k \in {s}})

\* The guard value 1e-10 of power.
Epsilon == Dec(1, -10)

\* norm**exponent raises ZeroDivisionError for a zero base and a negative exponent.
PowDefined(base, exponent) == ~(IsZero(base) /\ exponent[1] < 0)

\* math.acos raises ValueError outside [-1, 1].
AcosDefined(x) == ~FLess(One, FAbs(x))

\* A slip in the vector magnitude: the z component is left out.
VectorMagnitude_without_z(self) ==
  The({FSqrt(FAdd(FMul(a.x, a.x), FMul(a.y, a.y))) : a \in {self}})

\* math.sqrt(self.x**2 + self.y**2 + self.z**2)
VectorMagnitude(self) ==
  The({FSqrt(FAdd(FAdd(FMul(a.x, a.x), FMul(a.y, a.y)), FMul(a.z, a.z))) : a \in {self}})

\* math.sqrt(self.w**2 + self.x**2 + self.y**2 + self.z**2)
Norm(self) == FSqrt(SumSquares(self))

\* A slip in norm_pow: the exponent is not applied.
NormPow_without_exponent(norm, exponent) == norm

\* norm_pow = norm**exponent
NormPow(norm, exponent) == FPow(norm, exponent)

\* power from the line after the norm guard on (quaternion.py lines 145 to 164), for
\* the norm already computed.
PowerOfNorm(self, exponent, norm) ==
  IF ~PowDefined(norm, exponent) THEN Raise("ZeroDivisionError")
  ELSE IF ~CanDivide(norm) THEN Raise("ZeroDivisionError")
  ELSE IF ~AcosDefined(FDiv(self.w, norm)) THEN Raise("ValueError")
  ELSE The({LET new_w == FMul(norm_pow, FCos(FMul(exponent, theta)))
            IN IF FLess(vector_magnitude, Epsilon)
               THEN Quaternion(new_w, Zero, Zero, Zero)
               ELSE The({Quaternion(new_w, FMul(self.x, factor),
                                    FMul(self.y, factor), FMul(self.z, factor))
                         : factor \in {FDiv(FMul(norm_pow, FSin(FMul(exponent, theta))),
                                            vector_magnitude)}})
            : norm_pow \in {NormPow(norm, exponent)},
              theta \in {FAcos(FDiv(self.w, norm))},
              vector_magnitude \in {VectorMagnitude(self)}})

\* power with the norm guard evaluated only after norm**exponent and w / norm.
power_guard_late(self, exponent) ==
  The({The({The({IF IsRaise(r) THEN r
                 ELSE IF FLess(norm, Epsilon) THEN Quaternion(Zero, Zero, Zero, Zero)
                 ELSE r : r \in {PowerOfNorm(a, e, norm)}})
            : norm \in {Norm(a)}}) : a \in {self}, e \in {exponent}})

power(self, exponent) ==
  The({The({IF FLess(norm, Epsilon) THEN Quaternion(Zero, Zero, Zero, Zero)
            ELSE PowerOfNorm(a, e, norm)
            : norm \in {Norm(a)}}) : a \in {self}, e \in {exponent}})

---------------------------------------------------------------------------
(* slerp (demo_slerp.py) and get_rotation_axis_and_angle (demo_rotate.py)  *)

Dot4(q1, q2) ==
  The({FAdd(FAdd(FAdd(FMul(a.w, b.w), FMul(a.x, b.x)), FMul(a.y, b.y)), FMul(a.z, b.z))
       : a \in {q1}, b \in {q2}})

\* A slip in the shortest-path step: the target is never negated.
ShortestPathTarget_never_negates(a, b, shortest) == b

\* A slip in the shortest-path step: dot_product <= 0 for dot_product < 0.
ShortestPathTarget_negates_on_zero(a, b, shortest) ==
  IF shortest /\ FLeq(Dot4(a, b), Zero)
  THEN Quaternion(FNeg(b.w), FNeg(b.x), FNeg(b.y), FNeg(b.z))
  ELSE b

\* Lines 25 to 29: q2, negated when shortestPath is set and the dot product is negative.
ShortestPathTarget(a, b, shortest) ==
  IF shortest /\ FLess(Dot4(a, b), Zero)
  THEN Quaternion(FNeg(b.w), FNeg(b.x), FNeg(b.y), FNeg(b.z))
  ELSE b

\* A slip in the last line: q1.multiply(fraction_rotation).
slerp_right_multiplies(a, b, s, shortest) ==
  The({IF IsRaise(inv) THEN inv
       ELSE The({IF IsRaise(fraction_rotation) THEN fraction_rotation
                 ELSE multiply(a, fraction_rotation)
                 : fraction_rotation \in {power(multiply(target, inv), s)}})
       : target \in {ShortestPathTarget(a, b, shortest)}, inv \in {inverse(a)}})

slerp(a, b, s, shortest) ==
  The({IF IsRaise(inv) THEN inv
       ELSE The({IF IsRaise(fraction_rotation) THEN fraction_rotation
                 ELSE multiply(fraction_rotation, a)
                 : fraction_rotation \in {power(multiply(target, inv), s)}})
       : target \in {ShortestPathTarget(a, b, shortest)}, inv \in {inverse(a)}})

\* The near-identity bound 0.9999 of get_rotation_axis_and_angle.
NearIdentity == Dec(9999, -4)

\* A slip in the angle: acos(q.w) without the factor 2.
RotationAngle_half(w) == FAcos(w)

\* angle = 2 * math.acos(q.w)
RotationAngle(w) == FMul(Two, FAcos(w))

\* The (axis, angle) tuple is the record [axis |-> ..., angle |-> ...].
get_rotation_axis_and_angle(q) ==
  The({IF FLess(NearIdentity, FAbs(a.w))
       THEN [axis |-> Vector3(Zero, Zero, One), angle |-> Zero]
       ELSE The({IF ~CanDivide(sin_half_angle) THEN Raise("ZeroDivisionError")
                 ELSE [axis |-> Vector3(FDiv(a.x, sin_half_angle),
                                        FDiv(a.y, sin_half_angle),
                                        FDiv(a.z, sin_half_angle)),
                       angle |-> RotationAngle(a.w)]
                 : sin_half_angle \in {FSqrt(FSub(One, FMul(a.w, a.w)))}})
       : a \in {q}})

---------------------------------------------------------------------------
(* The state: a caller of the library.  op is the last call made, q1, q2,  *)
(* v, t and shortestPath are its arguments and res is what it returned.    *)
(* acc is a quaternion the caller accumulates by repeated multiplication   *)
(* (q in quaternion_test.py) and factors lists the quaternions multiplied  *)
(* into it, leftmost factor first.  heap holds the objects of a program    *)
(* that shares them, each known by its index, and calls the calls made on  *)
(* them; both are empty where the caller passes values only.               *)

VARIABLES q1, q2, v, t, shortestPath, op, res, acc, factors, heap, calls

vars == <<q1, q2, v, t, shortestPath, op, res, acc, factors, heap, calls>>

QInt(w, x, y, z) == Quaternion(FromInt(w), FromInt(x), FromInt(y), FromInt(z))
VInt(x, y, z) == Vector3(FromInt(x), FromInt(y), FromInt(z))

Identity == QInt(1, 0, 0, 0)
NoResult == [none |-> TRUE]

---------------------------------------------------------------------------
(* Products: i.multiply(j).multiply(k) of test_multiply.                   *)

\* The longest product formed.
MaxFactors == 3

I == QInt(0, 1, 0, 0)
J == QInt(0, 0, 1, 0)
K == QInt(0, 0, 0, 1)

Negated(q) == The({Quaternion(FNeg(a.w), FNeg(a.x), FNeg(a.y), FNeg(a.z)) : a \in {q}})

ProductInputs == {Identity, I, J, K, Negated(Identity), Negated(I), Negated(J), Negated(K)}

InitProduct ==
  /\ acc \in ProductInputs
  /\ factors = <<acc>>
  /\ q1 = Identity /\ q2 = Identity /\ v = VInt(0, 0, 0) /\ t = Zero
  /\ shortestPath = TRUE /\ op = "init" /\ res = NoResult
  /\ heap = <<>> /\ calls = <<>>

\* acc = acc.multiply(c)
RightMultiply(c) ==
  /\ Len(factors) < MaxFactors
  /\ acc' = multiply(acc, c)
  /\ factors' = Append(factors, c)
  /\ op' = "multiply"
  /\ UNCHANGED <<q1, q2, v, t, shortestPath, res, heap, calls>>

NextProduct == \E c \in ProductInputs : RightMultiply(c)

SpecProduct == InitProduct /\ [][NextProduct]_vars

\* C1: multiply is the Hamilton product on the basis i, j, k: the squares are -1,
\* i*j = k, j*k = i, k*i = j, the reversed products are the negations, and
\* (i*j)*k = -1, as test_multiply asserts.
HamiltonTable ==
  /\ factors = <<I, I>> => acc = QInt(-1, 0, 0, 0)
  /\ factors = <<J, J>> => acc = QInt(-1, 0, 0, 0)
  /\ factors = <<K, K>> => acc = QInt(-1, 0, 0, 0)
  /\ factors = <<I, J>> => acc = K
  /\ factors = <<J, K>> => acc = I
  /\ factors = <<K, I>> => acc = J
  /\ factors = <<J, I>> => acc = Negated(K)
  /\ factors = <<K, J>> => acc = Negated(I)
  /\ factors = <<I, K>> => acc = Negated(J)
  /\ factors = <<I, J, K>> => acc = QInt(-1, 0, 0, 0)

\* The product (i*j)*k has been formed and is -1.
HamiltonWitness == factors = <<I, J, K>> /\ acc = QInt(-1, 0, 0, 0)

---------------------------------------------------------------------------
(* Closeness of computed values.  Two results are close when every         *)
(* component differs by at most Tolerance times the largest component of   *)
(* the expected value: the polar form of power goes through acos, so its   *)
(* results are accurate to about the square root of the float precision.   *)

Tolerance == Dec(1, -3)

FMax(a, b) == The({IF FLess(x, y) THEN y ELSE x : x \in {a}, y \in {b}})

Close(a, e, scale) == FLeq(FAbs(FSub(a, e)), FMul(Tolerance, scale))

MagnitudeQ(q) ==
  The({FMax(FMax(FAbs(a.w), FAbs(a.x)), FMax(FAbs(a.y), FAbs(a.z))) : a \in {q}})
MagnitudeV(u) == The({FMax(FAbs(a.x), FMax(FAbs(a.y), FAbs(a.z))) : a \in {u}})

IsQuaternion(r) == DOMAIN r = {"w", "x", "y", "z"}
IsVector3(r) == DOMAIN r = {"x", "y", "z"}

CloseQ(a, e) ==
  The({/\ IsQuaternion(x)
       /\ Close(x.w, y.w, m) /\ Close(x.x, y.x, m)
       /\ Close(x.y, y.y, m) /\ Close(x.z, y.z, m)
       : x \in {a}, y \in {e}, m \in {MagnitudeQ(e)}})

CloseV(a, e) ==
  The({/\ IsVector3(x)
       /\ Close(x.x, y.x, m) /\ Close(x.y, y.y, m) /\ Close(x.z, y.z, m)
       : x \in {a}, y \in {e}, m \in {MagnitudeV(e)}})

---------------------------------------------------------------------------
(* Powers: q.power(exponent) of test_power_for_rotations.                  *)

\* The scalar parts tried are the whole numbers -MaxW .. MaxW, scaled.
MaxW == 2

\* A magnitude below the 1e-10 guard of power, and one just above it.
BelowGuard == Dec(5, -11)
AboveGuard == Dec(1, -9)

Scales == {One, AboveGuard, BelowGuard}

VectorPatterns == {VInt(1, 0, 0), VInt(0, 1, -1), VInt(1, 2, 2)}

PowerInputs ==
  {Quaternion(FMul(sw, FromInt(n)), u.x, u.y, u.z) :
     sw \in Scales, n \in -MaxW .. MaxW,
     u \in {VInt(0, 0, 0)} \cup {Vector3_scale(p, sv) : p \in VectorPatterns, sv \in Scales}}

Exponents == {Zero, One, Two, Half, Dec(-1, 0)}

InitPower ==
  /\ q1 \in PowerInputs
  /\ q2 = Identity /\ v = VInt(0, 0, 0) /\ t = Zero /\ shortestPath = TRUE
  /\ op = "init" /\ res = NoResult /\ acc = Identity /\ factors = <<>>
  /\ heap = <<>> /\ calls = <<>>

\* res = q1.power(e)
Power(e) ==
  /\ op = "init"
  /\ t' = e
  /\ res' = power(q1, e)
  /\ op' = "power"
  /\ UNCHANGED <<q1, q2, v, shortestPath, acc, factors, heap, calls>>

NextPower == \E e \in Exponents : Power(e)

SpecPower == InitPower /\ [][NextPower]_vars

ZeroQuaternion == Quaternion(Zero, Zero, Zero, Zero)

\* C4 as stated: q.power(0) is the identity (1,0,0,0) for every quaternion q.
PowerZeroIsIdentityForAll == op = "power" /\ t = Zero => res = Identity

\* C4 as amended: q.power(0) is the identity (1,0,0,0) for every quaternion whose
\* norm is at least 1e-10, and the zero quaternion for a norm below 1e-10.
PowerZeroIsIdentity ==
  op = "power" /\ t = Zero =>
    res = IF FLess(Norm(q1), Epsilon) THEN ZeroQuaternion ELSE Identity

\* A non-unit quaternion with a vector part has been raised to the power 0.
PowerZeroWitness ==
  /\ op = "power" /\ t = Zero /\ res = Identity
  /\ q1.w = FromInt(2) /\ ~IsZero(q1.z)

\* The quaternions on which power takes the general polar form: the norm is not
\* below the guard, and the vector part is zero or not below the guard.
PolarForm(q) ==
  /\ ~FLess(Norm(q), Epsilon)
  /\ \/ (IsZero(q.x) /\ IsZero(q.y) /\ IsZero(q.z))
     \/ ~FLess(VectorMagnitude(q), Epsilon)

\* C5 as stated: q.power(1) equals q and q.power(2) equals q.multiply(q) for every
\* quaternion q, a vector part below 1e-10 included.
PowerAgreesWithMultiplyForAll ==
  op = "power" =>
    /\ t = One => CloseQ(res, q1)
    /\ t = Two => CloseQ(res, multiply(q1, q1))

\* C5 as amended: q.power(1) equals q and q.power(2) equals q.multiply(q), to within
\* the accuracy of the polar form, for every quaternion whose norm is at least 1e-10
\* and whose vector part is zero or at least 1e-10 in magnitude; a vector part below
\* 1e-10 is dropped from the result.
PowerAgreesWithMultiply ==
  op = "power" /\ ~FLess(Norm(q1), Epsilon) =>
    /\ PolarForm(q1) /\ t = One => CloseQ(res, q1)
    /\ PolarForm(q1) /\ t = Two => CloseQ(res, multiply(q1, q1))
    /\ FLess(VectorMagnitude(q1), Epsilon) =>
         IsQuaternion(res) /\ IsZero(res.x) /\ IsZero(res.y) /\ IsZero(res.z)

\* A quaternion with negative scalar part and a vector part has been squared by power.
PowerAgreesWitness ==
  /\ op = "power" /\ t = Two /\ PolarForm(q1)
  /\ q1.w = FromInt(-2) /\ q1.y = One
  /\ CloseQ(res, multiply(q1, q1))

\* C10: for every quaternion whose norm is below 1e-10 and every exponent, power
\* returns the zero quaternion and raises nothing.
NearZeroNormGivesZero ==
  op = "power" /\ FLess(Norm(q1), Epsilon) => res = ZeroQuaternion

\* The zero quaternion has been raised to a negative power.
NearZeroNormWitness ==
  /\ op = "power" /\ q1 = ZeroQuaternion /\ t = Dec(-1, 0)
  /\ res = ZeroQuaternion

\* power raises nothing on any input tried.
PowerNeverRaises == op = "power" => IsQuaternion(res)

---------------------------------------------------------------------------
(* Interpolation: slerp(q1, q2, t, shortestPath) of demo_slerp.            *)

\* The rotation angles tried are the multiples of pi / AngleDiv up to 2 pi.
AngleDiv == 2

SlerpAngles == {FDiv(FMul(FromInt(k), Pi), FromInt(AngleDiv)) : k \in 0 .. 2 * AngleDiv}

SlerpAxes == {VInt(1, 0, 0), VInt(0, 0, 1), VInt(1, 1, 1), VInt(1, -2, 2)}

\* q1 and q2 of demo_slerp
DemoQ1 == Quaternion(Dec(6438, -4), Dec(4378, -4), Dec(2916, -4), Dec(5558, -4))
DemoQ2 == Quaternion(Dec(2232, -4), Dec(-4233, -4), Dec(-3139, -4), Dec(-8201, -4))

UnitQuaternions ==
  {from_axis_angle(axis, angle) : axis \in SlerpAxes, angle \in SlerpAngles}
    \cup {DemoQ1, DemoQ2}

Fractions == {Zero, Half, One}

InitSlerp ==
  /\ q1 \in UnitQuaternions
  /\ q2 \in UnitQuaternions
  /\ v = VInt(0, 0, 0) /\ t = Zero /\ shortestPath = TRUE
  /\ op = "init" /\ res = NoResult /\ acc = Identity /\ factors = <<>>
  /\ heap = <<>> /\ calls = <<>>

\* res = slerp(q1, q2, s, shortest)
Slerp(s, shortest) ==
  /\ op = "init"
  /\ t' = s
  /\ shortestPath' = shortest
  /\ res' = slerp(q1, q2, s, shortest)
  /\ op' = "slerp"
  /\ UNCHANGED <<q1, q2, v, acc, factors, heap, calls>>

NextSlerp == \E s \in Fractions, shortest \in BOOLEAN : Slerp(s, shortest)

SpecSlerp == InitSlerp /\ [][NextSlerp]_vars

NegativeDot == FLess(Dot4(q1, q2), Zero)

\* C2 as stated: slerp(q1, q2, 0) equals q1 and slerp(q1, q2, 1) equals q2 for unit
\* q1 and q2, with shortestPath set and with it clear.
SlerpEndsAtQ2 ==
  op = "slerp" =>
    /\ t = Zero => CloseQ(res, q1)
    /\ t = One => CloseQ(res, q2)

\* C2 as amended: slerp(q1, q2, 0) equals q1; slerp(q1, q2, 1) equals q2 when
\* shortestPath is clear or the dot product of q1 and q2 is not negative, and equals
\* -q2 (the same rotation) when shortestPath is set and the dot product is negative.
SlerpBoundary ==
  op = "slerp" =>
    /\ t = Zero => res = q1
    /\ t = One /\ ~(shortestPath /\ NegativeDot) => CloseQ(res, q2)
    /\ t = One /\ shortestPath /\ NegativeDot => CloseQ(res, Negated(q2))

\* slerp with shortestPath set has reached t = 1 from a q1 other than the identity,
\* for a target it did not negate.
SlerpBoundaryWitness ==
  /\ op = "slerp" /\ t = One /\ shortestPath /\ ~NegativeDot
  /\ q1 = DemoQ1 /\ q2 # DemoQ1 /\ q2 # Identity
  /\ CloseQ(res, q2)

\* C3 as stated: for unit q1, q2 with negative dot product, slerp with shortestPath
\* set and slerp with it clear agree at t = 0 and at t = 1 and differ at t = 0.5.
SlerpPathsAgreeAtBothEnds ==
  op = "slerp" /\ NegativeDot =>
    LET other == slerp(q1, q2, t, ~shortestPath)
    IN /\ t = Zero => CloseQ(res, other)
       /\ t = One => CloseQ(res, other)
       /\ t = Half => ~CloseQ(res, other)

\* C3 as amended: for unit q1, q2 with negative dot product, slerp with shortestPath
\* set and slerp with it clear return the same quaternion at t = 0, quaternions of
\* opposite sign at t = 1 (-q2 with shortestPath, q2 without) and different
\* quaternions at t = 0.5.
SlerpPathsDiverge ==
  op = "slerp" /\ NegativeDot =>
    LET other == slerp(q1, q2, t, ~shortestPath)
    IN /\ t = Zero => res = other
       /\ t = One => CloseQ(res, Negated(other))
       /\ t = One => CloseQ(res, IF shortestPath THEN Negated(q2) ELSE q2)
       /\ t = Half => ~CloseQ(res, other)

\* The two quaternions of demo_slerp have been interpolated half way.
SlerpPathsWitness ==
  /\ op = "slerp" /\ q1 = DemoQ1 /\ q2 = DemoQ2 /\ NegativeDot
  /\ t = Half /\ shortestPath
  /\ ~CloseQ(res, slerp(q1, q2, t, FALSE))

\* slerp raises nothing on any input tried.
SlerpNeverRaises == op = "slerp" => IsQuaternion(res)

---------------------------------------------------------------------------
(* Rotations: q = a.multiply(q) and q.transform(v) of test_rotation and    *)
(* test_rotation_other_way, and q.scale(s).transform(v).  acc is the       *)
(* orientation q of the tests, q1 is acc before it was scaled and t is the *)
(* scale factor applied to it (1 while it is unscaled).                    *)

\* The most rotations multiplied into the orientation.
MaxRotations == 2

\* a and b of test_rotation
RotA == from_axis_angle(VInt(1, 0, 0), FDiv(Pi, Two))
RotB == from_axis_angle(VInt(1, 1, 1), FDiv(FMul(FromInt(-2), Pi), FromInt(3)))

\* A magnitude whose square is a float and whose fourth power underflows.
Tiny == Dec(1, -100)

Rotations ==
  {RotA, RotB, QInt(1, 2, 0, -1), QInt(0, 0, -3, 0), Quaternion_scale(QInt(1, 1, 0, 0), Tiny)}

ScaleFactors == {Two, Dec(-5, -1), Dec(1, -200)}

Ihat == VInt(1, 0, 0)
Jhat == VInt(0, 1, 0)
Khat == VInt(0, 0, 1)

Vectors == {Ihat, Jhat, Khat, VInt(1, 2, 2), VInt(-3, 0, 4)}

InitRotation ==
  /\ acc = Identity /\ factors = <<>>
  /\ q1 = Identity /\ t = One
  /\ q2 = Identity /\ v = VInt(0, 0, 0) /\ shortestPath = TRUE
  /\ op = "init" /\ res = NoResult
  /\ heap = <<>> /\ calls = <<>>

\* q = r.multiply(q)
LeftMultiply(r) ==
  /\ op \in {"init", "multiply"}
  /\ Len(factors) < MaxRotations
  /\ acc' = multiply(r, acc)
  /\ q1' = acc'
  /\ factors' = <<r>> \o factors
  /\ op' = "multiply"
  /\ UNCHANGED <<q2, v, t, shortestPath, res, heap, calls>>

\* q = q.scale(s)
Scale(s) ==
  /\ op \in {"init", "multiply"}
  /\ acc' = Quaternion_scale(acc, s)
  /\ t' = s
  /\ op' = "scale"
  /\ UNCHANGED <<q1, q2, v, shortestPath, res, factors, heap, calls>>

\* res = q.transform(e)
Transform(e) ==
  /\ op \in {"init", "multiply", "scale"}
  /\ v' = e
  /\ res' = transform(acc, e)
  /\ op' = "transform"
  /\ UNCHANGED <<q1, q2, t, shortestPath, acc, factors, heap, calls>>

NextRotation ==
  \/ \E r \in Rotations : LeftMultiply(r)
  \/ \E s \in ScaleFactors : Scale(s)
  \/ \E e \in Vectors : Transform(e)

SpecRotation == InitRotation /\ [][NextRotation]_vars

NonZeroQ(q) == ~(IsZero(q.w) /\ IsZero(q.x) /\ IsZero(q.y) /\ IsZero(q.z))

\* The smallest normal float, 2.2250739e-308.
MinNormal == Dec(22250739, -315)

\* The squared norm of q is a normal float: it has not underflowed.
InRange(q) == FLeq(MinNormal, SumSquares(q))

\* The basis images test_rotation and test_rotation_other_way assert: a alone, b
\* after a, b alone, a after b.
TestImages ==
  op = "transform" /\ t = One =>
    /\ factors = <<RotA>> =>
         /\ v = Ihat => CloseV(res, VInt(1, 0, 0))
         /\ v = Jhat => CloseV(res, VInt(0, 0, 1))
         /\ v = Khat => CloseV(res, VInt(0, -1, 0))
    /\ factors = <<RotB, RotA>> =>
         /\ v = Ihat => CloseV(res, VInt(0, 0, 1))
         /\ v = Jhat => CloseV(res, VInt(0, 1, 0))
         /\ v = Khat => CloseV(res, VInt(-1, 0, 0))
    /\ factors = <<RotB>> =>
         /\ v = Ihat => CloseV(res, VInt(0, 0, 1))
         /\ v = Jhat => CloseV(res, VInt(1, 0, 0))
         /\ v = Khat => CloseV(res, VInt(0, 1, 0))
    /\ factors = <<RotA, RotB>> =>
         /\ v = Ihat => CloseV(res, VInt(0, -1, 0))
         /\ v = Jhat => CloseV(res, VInt(1, 0, 0))
         /\ v = Khat => CloseV(res, VInt(0, 0, 1))

\* a.multiply(b).transform(v) is a vector equal to a.transform(b.transform(v)).
ComposedImage ==
  /\ IsVector3(res)
  /\ CloseV(res, transform(factors[1], transform(factors[2], v)))

\* C6 as stated: a.multiply(b).transform(v) equals a.transform(b.transform(v)) for all
\* non-zero quaternions a and b and every vector v, and the basis images are those
\* the tests assert.
RotationsComposeForAll ==
  /\ TestImages
  /\ op = "transform" /\ t = One /\ Len(factors) = 2
       /\ NonZeroQ(factors[1]) /\ NonZeroQ(factors[2]) => ComposedImage

\* C6 as amended: a.multiply(b).transform(v) equals a.transform(b.transform(v)), to
\* rounding, for all quaternions a and b such that the squared norms of a, of b and
\* of a.multiply(b) have not underflowed, and the basis images are those the tests
\* assert; when the squared norm of the product underflows transform raises
\* ZeroDivisionError.
RotationsCompose ==
  /\ TestImages
  /\ op = "transform" /\ t = One /\ Len(factors) = 2
       /\ InRange(factors[1]) /\ InRange(factors[2]) =>
         IF InRange(acc) THEN ComposedImage
         ELSE IsZero(SumSquares(acc)) => res = Raise("ZeroDivisionError")

\* b has been applied after a and the image of k_hat is (-1, 0, 0).
RotationsComposeWitness ==
  /\ op = "transform" /\ t = One /\ factors = <<RotB, RotA>> /\ v = Khat
  /\ CloseV(res, VInt(-1, 0, 0))

\* q.transform(v) is a vector as long as v.
SameLength == IsVector3(res) /\ Close(length(res), length(v), length(v))

\* q.scale(s).transform(v) is the vector q.transform(v).
SameAsUnscaled ==
  /\ IsVector3(res)
  /\ IsVector3(transform(q1, v))
  /\ CloseV(res, transform(q1, v))

\* C7 as stated: q.transform(v) is as long as v for every non-zero q, and
\* q.scale(s).transform(v) equals q.transform(v) for every non-zero s.
TransformPreservesLengthForAll ==
  op = "transform" /\ NonZeroQ(q1) /\ ~IsZero(t) => SameLength /\ SameAsUnscaled

\* C7 as amended: q.transform(v) is as long as v, and q.scale(s).transform(v) equals
\* q.transform(v), to rounding, for every q and s such that the squared norms of q
\* and of q.scale(s) have not underflowed.
TransformPreservesLength ==
  op = "transform" /\ InRange(q1) /\ InRange(acc) => SameLength /\ SameAsUnscaled

\* A non-unit quaternion scaled by -0.5 has transformed (1, 2, 2).
TransformPreservesLengthWitness ==
  /\ op = "transform" /\ t = Dec(-5, -1) /\ factors = <<QInt(1, 2, 0, -1)>>
  /\ v = VInt(1, 2, 2)
  /\ SameLength /\ SameAsUnscaled

---------------------------------------------------------------------------
(* Axes and angles: v.normalize(), Quaternion.from_axis_angle(v, t) and    *)
(* get_rotation_axis_and_angle of demo_rotate, on q1 and on the quaternion  *)
(* from_axis_angle returned (kept in q2).                                   *)

\* The axes tried have whole components of magnitude at most MaxAxis.
MaxAxis == 1

\* The angles tried include the multiples of pi / AngleSteps up to pi.
AngleSteps == 4

\* A non-zero axis whose squared length underflows.
TinyAxis == Vector3(Dec(1, -200), Zero, Zero)

Axes ==
  {VInt(x, y, z) : x \in -MaxAxis .. MaxAxis, y \in -MaxAxis .. MaxAxis,
                   z \in -MaxAxis .. MaxAxis} \cup {TinyAxis}

\* Angles on both sides of 2 * acos(0.9999) = 0.0282845..., and one just below pi.
SmallAngles == {Dec(2, -2), Dec(28, -3), Dec(285, -4), Dec(3, -2), Dec(314, -2)}

Angles ==
  {FDiv(FMul(FromInt(k), Pi), FromInt(AngleSteps)) : k \in 0 .. AngleSteps}
    \cup SmallAngles

\* Quaternions handed to get_rotation_axis_and_angle directly.
AxisAngleInputs ==
  {Identity, QInt(-1, 0, 0, 0), QInt(2, 0, 0, 0), QInt(0, 1, 0, 0),
   Quaternion(Dec(99995, -5), Dec(1, -2), Zero, Zero),
   Quaternion(Dec(-99995, -5), Zero, Dec(1, -2), Zero),
   Quaternion(Dec(9999, -4), Zero, Zero, Dec(14142, -6))}

InitAxis ==
  /\ \/ q1 \in AxisAngleInputs /\ v = VInt(0, 0, 1) /\ t = Zero
     \/ q1 = Identity /\ v \in Axes /\ t \in Angles
  /\ q2 = Identity /\ shortestPath = TRUE
  /\ op = "init" /\ res = NoResult /\ acc = Identity /\ factors = <<>>
  /\ heap = <<>> /\ calls = <<>>

\* res = v.normalize()
Normalize ==
  /\ op = "init"
  /\ res' = normalize(v)
  /\ op' = "normalize"
  /\ UNCHANGED <<q1, q2, v, t, shortestPath, acc, factors, heap, calls>>

\* res = Quaternion.from_axis_angle(v, t)
FromAxisAngle ==
  /\ op = "init"
  /\ res' = from_axis_angle(v, t)
  /\ op' = "from_axis_angle"
  /\ UNCHANGED <<q1, q2, v, t, shortestPath, acc, factors, heap, calls>>

\* res = get_rotation_axis_and_angle(q1)
GetAxisAngle ==
  /\ op = "init"
  /\ res' = get_rotation_axis_and_angle(q1)
  /\ op' = "get_axis_angle"
  /\ UNCHANGED <<q1, q2, v, t, shortestPath, acc, factors, heap, calls>>

\* res = get_rotation_axis_and_angle(res), for the quaternion from_axis_angle returned
RoundTrip ==
  /\ op = "from_axis_angle"
  /\ ~IsRaise(res)
  /\ q2' = res
  /\ res' = get_rotation_axis_and_angle(res)
  /\ op' = "round_trip"
  /\ UNCHANGED <<q1, v, t, shortestPath, acc, factors, heap, calls>>

NextAxis == Normalize \/ FromAxisAngle \/ GetAxisAngle \/ RoundTrip

SpecAxis == InitAxis /\ [][NextAxis]_vars

\* What get_rotation_axis_and_angle returns for a near-identity quaternion.
Sentinel == [axis |-> Vector3(Zero, Zero, One), angle |-> Zero]

IsAxisAngle(r) == DOMAIN r = {"axis", "angle"}

\* The angle is in the open interval (0, pi).
InOpenInterval == FLess(Zero, t) /\ FLess(t, Pi)

\* The result is the normalized axis and the angle that went in.
RoundTripped ==
  /\ IsAxisAngle(res)
  /\ CloseV(res.axis, UnitAxis(v))
  /\ Close(res.angle, t, t)

\* C8 as stated: for every axis and every angle in (0, pi) the round trip returns the
\* normalized axis and the angle; for the angle 0 and for any quaternion with
\* |w| > 0.9999 the result is the sentinel.
AxisAngleRoundTripForAll ==
  /\ op = "round_trip" /\ InOpenInterval => RoundTripped
  /\ op = "round_trip" /\ t = Zero => res = Sentinel
  /\ op = "get_axis_angle" /\ FLess(NearIdentity, FAbs(q1.w)) => res = Sentinel

\* C8 as amended: the round trip returns the normalized axis and the angle for every
\* angle in (0, pi) with cos(angle / 2) <= 0.9999, which every angle from 0.0285 on
\* is; it returns the sentinel for every angle with cos(angle / 2) > 0.9999, which 0
\* and every angle up to 0.028 is, and for any quaternion with |w| > 0.9999.
AxisAngleRoundTrip ==
  /\ op = "round_trip" /\ InOpenInterval /\ FLeq(FAbs(q2.w), NearIdentity) => RoundTripped
  /\ op = "round_trip" /\ FLeq(Dec(285, -4), t) /\ FLess(t, Pi) => RoundTripped
  /\ op = "round_trip" /\ FLess(NearIdentity, FAbs(q2.w)) => res = Sentinel
  /\ op = "round_trip" /\ FLeq(Zero, t) /\ FLeq(t, Dec(28, -3)) => res = Sentinel
  /\ op = "get_axis_angle" /\ FLess(NearIdentity, FAbs(q1.w)) => res = Sentinel

\* The axis (1, -1, 1) and the angle 3 pi / 4 have made the round trip.
AxisAngleRoundTripWitness ==
  /\ op = "round_trip" /\ v = VInt(1, -1, 1)
  /\ t = FDiv(FMul(FromInt(3), Pi), FromInt(4))
  /\ RoundTripped

\* normalize and from_axis_angle raise ZeroDivisionError on the zero vector.
RaisesOnZero ==
  op \in {"normalize", "from_axis_angle"} /\ is_zero(v) =>
    res = Raise("ZeroDivisionError")

\* A call of normalize leaves the receiver as it was.
ReceiverUnchanged == op' = "normalize" => v' = v

\* C9: normalize called on a vector for which is_zero() holds raises
\* ZeroDivisionError instead of returning a Vector3 and leaves the receiver
\* unchanged, and from_axis_angle called with a zero axis raises the same error.
NormalizeZeroRaises == [](RaisesOnZero) /\ [][ReceiverUnchanged]_vars

\* normalize has been called on the zero vector and has raised.
NormalizeZeroWitness ==
  /\ op = "normalize" /\ is_zero(v) /\ v = VInt(0, 0, 0)
  /\ res = Raise("ZeroDivisionError")

---------------------------------------------------------------------------
(* Objects: a program that keeps Vector3 and Quaternion objects and calls  *)
(* their methods on one another.  heap[o] holds the components of object   *)
(* o; a constructor call appends a new object.  calls is the last call     *)
(* made: its name, the objects it was given (receiver first), what it      *)
(* returned, and the number of calls made so far.                          *)

\* The most calls made in one run.
MaxCalls == 2

\* The objects the program starts with: three vectors and a quaternion.
InitialHeap == <<VInt(1, 2, 2), VInt(0, 0, 0), VInt(0, 3, -4), QInt(1, 1, 0, 0)>>

VectorRefs == {o \in DOMAIN heap : IsVector3(heap[o])}
QuaternionRefs == {o \in DOMAIN heap : IsQuaternion(heap[o])}

\* A slip in set: the z component is not assigned.
Vector3_set_without_z(self, u) == The({Vector3(b.x, b.y, a.z) : a \in {self}, b \in {u}})

\* The components of self after self.set(u).
Vector3_set(self, u) == The({Vector3(b.x, b.y, b.z) : a \in {self}, b \in {u}})

InitHeap ==
  /\ heap = InitialHeap
  /\ calls = [n |-> 0, name |-> "none", args |-> <<>>, ret |-> NoResult]
  /\ q1 = Identity /\ q2 = Identity /\ v = VInt(0, 0, 0) /\ t = Zero
  /\ shortestPath = TRUE /\ op = "init" /\ res = NoResult
  /\ acc = Identity /\ factors = <<>>

\* A call that returns Vector3(...) or Quaternion(...), or raises: the constructor
\* makes a new object, an exception makes none.
Construct(name, args, value) ==
  /\ calls.n < MaxCalls
  /\ heap' = IF IsRaise(value) THEN heap ELSE Append(heap, value)
  /\ calls' = [n |-> calls.n + 1, name |-> name, args |-> args,
               ret |-> IF IsRaise(value) THEN value ELSE [ref |-> Len(heap) + 1]]
  /\ UNCHANGED <<q1, q2, v, t, shortestPath, op, res, acc, factors>>

\* The calls pass one value for each scalar argument: s = 2 to scale, exponent = 2
\* to power, angle = pi/2 to from_axis_angle and t = 0.5 to slerp.

\* a.set(b): the three assignments to the fields of a; returns None.
CallSet(a, b) ==
  /\ calls.n < MaxCalls
  /\ heap' = [heap EXCEPT ![a] = Vector3_set(heap[a], heap[b])]
  /\ calls' = [n |-> calls.n + 1, name |-> "set", args |-> <<a, b>>, ret |-> NoResult]
  /\ UNCHANGED <<q1, q2, v, t, shortestPath, op, res, acc, factors>>

CallCopy(a) == Construct("copy", <<a>>, Vector3_copy(heap[a]))
CallAdd(a, b) == Construct("add", <<a, b>>, Vector3_add(heap[a], heap[b]))
CallSubtract(a, b) == Construct("subtract", <<a, b>>, Vector3_subtract(heap[a], heap[b]))
CallScale(a) == Construct("scale", <<a>>, Vector3_scale(heap[a], Two))
CallInverse(a) == Construct("inverse", <<a>>, Vector3_inverse(heap[a]))
CallCross(a, b) == Construct("cross", <<a, b>>, cross(heap[a], heap[b]))
CallNormalize(a) == Construct("normalize", <<a>>, normalize(heap[a]))
CallFromAxisAngle(a) ==
  Construct("from_axis_angle", <<a>>, from_axis_angle(heap[a], HalfPi))
CallMultiply(p, q) == Construct("multiply", <<p, q>>, multiply(heap[p], heap[q]))
CallTransform(p, a) == Construct("transform", <<p, a>>, transform(heap[p], heap[a]))
CallConjugate(p) == Construct("conjugate", <<p>>, conjugate(heap[p]))
CallQuaternionInverse(p) == Construct("inverse", <<p>>, inverse(heap[p]))
CallQuaternionCopy(p) == Construct("copy", <<p>>, Quaternion_copy(heap[p]))
CallQuaternionScale(p) == Construct("scale", <<p>>, Quaternion_scale(heap[p], Two))
CallPower(p) == Construct("power", <<p>>, power(heap[p], Two))
CallSlerp(p, q) ==
  Construct("slerp", <<p, q>>, slerp(heap[p], heap[q], Half, TRUE))

NextHeap ==
  \/ \E a \in VectorRefs, b \in VectorRefs : CallSet(a, b)
  \/ \E a \in VectorRefs : CallCopy(a)
  \/ \E a \in VectorRefs, b \in VectorRefs : CallAdd(a, b)
  \/ \E a \in VectorRefs, b \in VectorRefs : CallSubtract(a, b)
  \/ \E a \in VectorRefs : CallScale(a)
  \/ \E a \in VectorRefs : CallInverse(a)
  \/ \E a \in VectorRefs, b \in VectorRefs : CallCross(a, b)
  \/ \E a \in VectorRefs : CallNormalize(a)
  \/ \E a \in VectorRefs : CallFromAxisAngle(a)
  \/ \E p \in QuaternionRefs, q \in QuaternionRefs : CallMultiply(p, q)
  \/ \E p \in QuaternionRefs, a \in VectorRefs : CallTransform(p, a)
  \/ \E p \in QuaternionRefs : CallConjugate(p)
  \/ \E p \in QuaternionRefs : CallQuaternionInverse(p)
  \/ \E p \in QuaternionRefs : CallQuaternionCopy(p)
  \/ \E p \in QuaternionRefs : CallQuaternionScale(p)
  \/ \E p \in QuaternionRefs : CallPower(p)
  \/ \E p \in QuaternionRefs, q \in QuaternionRefs : CallSlerp(p, q)

SpecHeap == InitHeap /\ [][NextHeap]_vars

\* The call just made changed no object that existed before it, other than the
\* receiver of a set.
OnlySetWrites ==
  \A o \in DOMAIN heap :
    heap'[o] # heap[o] => calls'.name = "set" /\ calls'.args[1] = o

\* a.set(b) gave a the components b had when it was called and made no object.
SetCopies ==
  calls'.name = "set" =>
    /\ heap'[calls'.args[1]] = heap[calls'.args[2]]
    /\ Len(heap') = Len(heap)

\* Every other call returned an object that did not exist before, or raised.
ReturnsNew ==
  calls'.name # "set" =>
    \/ IsRaise(calls'.ret) /\ heap' = heap
    \/ /\ "ref" \in DOMAIN calls'.ret
       /\ calls'.ret.ref \notin DOMAIN heap
       /\ calls'.ret.ref \in DOMAIN heap'

\* C11: over any sequence of calls, set is the only operation that changes the
\* components of an existing object; a.set(b) makes a's components those of b at the
\* time of the call and leaves b and every other object as they were, so that a later
\* b.set(c) does not change a; every other operation leaves its receiver and its
\* arguments unchanged and returns a newly constructed object.
OnlySetMutates == [][OnlySetWrites /\ SetCopies /\ ReturnsNew]_vars

\* a.set(b) was followed by b.set(c): a still has the components b had, b has c's.
OnlySetMutatesWitness ==
  /\ calls.n = 2 /\ calls.name = "set" /\ calls.args = <<2, 3>>
  /\ heap[1] = InitialHeap[2] /\ heap[2] = InitialHeap[3] /\ heap[1] # heap[2]

---------------------------------------------------------------------------
(* Threads: calls made at the same time on the objects of InitialHeap.     *)
(* A thread switch can fall between any two attribute accesses, so a call  *)
(* is a sequence of loads and stores of single fields, in the order the    *)
(* method's expressions evaluate them; calls[th] is the call of thread th: *)
(* the accesses it has made (pc), the values it has loaded (regs) and what *)
(* it returned.  overlapped records that another thread ran while the call *)
(* was under way.                                                          *)

\* The number of threads.
MaxThreads == 2
Threads == 1 .. MaxThreads

Pending == [pending |-> TRUE]

\* The calls a thread can make: a = 1, b = 2, c = 3 are the vectors and 4 is the
\* quaternion of InitialHeap.  A call with no argument has arg = self.
ThreadCalls ==
  <<[name |-> "set", self |-> 1, arg |-> 3], [name |-> "set", self |-> 1, arg |-> 2],
    [name |-> "set", self |-> 2, arg |-> 3],
    [name |-> "copy", self |-> 1, arg |-> 1], [name |-> "add", self |-> 1, arg |-> 3],
    [name |-> "length", self |-> 1, arg |-> 1], [name |-> "normalize", self |-> 1, arg |-> 1],
    [name |-> "transform", self |-> 4, arg |-> 1]>>

\* Which call each thread makes.  Threads are interchangeable, so the calls are taken
\* in the order of ThreadCalls.
Assignments ==
  {f \in [Threads -> DOMAIN ThreadCalls] : \A i, j \in Threads : i <= j => f[i] <= f[j]}

\* A slip in add: each component read from v is also stored into the receiver.
AddSteps_stores_into_self ==
  <<<<"load", "self", "x">>, <<"load", "arg", "x">>, <<"store", "self", "x">>,
    <<"load", "self", "y">>, <<"load", "arg", "y">>, <<"store", "self", "y">>,
    <<"load", "self", "z">>, <<"load", "arg", "z">>, <<"store", "self", "z">>>>

\* Vector3(self.x + v.x, self.y + v.y, self.z + v.z)
AddSteps ==
  <<<<"load", "self", "x">>, <<"load", "arg", "x">>,
    <<"load", "self", "y">>, <<"load", "arg", "y">>,
    <<"load", "self", "z">>, <<"load", "arg", "z">>>>

\* self.x * self.x + self.y * self.y + self.z * self.z
LengthSteps ==
  <<<<"load", "self", "x">>, <<"load", "self", "x">>,
    <<"load", "self", "y">>, <<"load", "self", "y">>,
    <<"load", "self", "z">>, <<"load", "self", "z">>>>

\* The attribute accesses of a method, in evaluation order.  A store writes the value
\* loaded just before it.  transform reads v.x, v.y, v.z to build p; the quaternion's
\* own fields are never stored to.
Steps(name) ==
  CASE name = "set" ->
         <<<<"load", "arg", "x">>, <<"store", "self", "x">>,
           <<"load", "arg", "y">>, <<"store", "self", "y">>,
           <<"load", "arg", "z">>, <<"store", "self", "z">>>>
    [] name = "copy" -> <<<<"load", "self", "x">>, <<"load", "self", "y">>, <<"load", "self", "z">>>>
    [] name = "add" -> AddSteps
    [] name = "length" -> LengthSteps
    [] name = "normalize" ->
         LengthSteps \o <<<<"load", "self", "x">>, <<"load", "self", "y">>, <<"load", "self", "z">>>>
    [] name = "transform" -> <<<<"load", "arg", "x">>, <<"load", "arg", "y">>, <<"load", "arg", "z">>>>

\* math.sqrt(x1 * x2 + y1 * y2 + z1 * z2) of the six values length loaded.
LoadedLength(r) ==
  The({FSqrt(FAdd(FAdd(FMul(s[1], s[2]), FMul(s[3], s[4])), FMul(s[5], s[6]))) : s \in {r}})

\* What call c returns, given the values it loaded.
Result(c) ==
  The({CASE c.name = "set" -> NoResult
         [] c.name = "copy" -> Vector3(r[1], r[2], r[3])
         [] c.name = "add" -> Vector3(FAdd(r[1], r[2]), FAdd(r[3], r[4]), FAdd(r[5], r[6]))
         [] c.name = "length" -> [float |-> LoadedLength(r)]
         [] c.name = "normalize" ->
              The({IF ~CanDivide(len) THEN Raise("ZeroDivisionError")
                   ELSE Vector3(FDiv(r[7], len), FDiv(r[8], len), FDiv(r[9], len))
                   : len \in {LoadedLength(r)}})
         [] c.name = "transform" -> transform(heap[c.self], Vector3(r[1], r[2], r[3]))
       : r \in {c.regs}})

InitThreads ==
  /\ heap = InitialHeap
  /\ calls \in {[th \in Threads |->
                   [name |-> ThreadCalls[f[th]].name, self |-> ThreadCalls[f[th]].self,
                    arg |-> ThreadCalls[f[th]].arg, pc |-> 0, regs |-> <<>>,
                    ret |-> Pending, overlapped |-> FALSE]] : f \in Assignments}
  /\ q1 = Identity /\ q2 = Identity /\ v = VInt(0, 0, 0) /\ t = Zero
  /\ shortestPath = TRUE /\ op = "init" /\ res = NoResult
  /\ acc = Identity /\ factors = <<>>

Running(th) == calls[th].ret = Pending /\ calls[th].pc < Len(Steps(calls[th].name))
NextStep(th) == Steps(calls[th].name)[calls[th].pc + 1]
Target(th) == IF NextStep(th)[2] = "self" THEN calls[th].self ELSE calls[th].arg

\* The calls after thread th has made one more access, loading the values in loaded.
Advance(th, loaded) ==
  [u \in Threads |->
     IF u = th THEN [calls[th] EXCEPT !.pc = @ + 1, !.regs = @ \o loaded]
     ELSE [calls[u] EXCEPT !.overlapped = @ \/ (calls[u].pc > 0 /\ calls[u].ret = Pending)]]

\* Thread th loads one field.
Load(th) ==
  /\ Running(th) /\ NextStep(th)[1] = "load"
  /\ calls' = Advance(th, <<heap[Target(th)][NextStep(th)[3]]>>)
  /\ UNCHANGED <<q1, q2, v, t, shortestPath, op, res, acc, factors, heap>>

\* Thread th stores the value it loaded last into one field.
Store(th) ==
  /\ Running(th) /\ NextStep(th)[1] = "store"
  /\ heap' = [heap EXCEPT ![Target(th)] =
                [@ EXCEPT ![NextStep(th)[3]] = calls[th].regs[Len(calls[th].regs)]]]
  /\ calls' = Advance(th, <<>>)
  /\ UNCHANGED <<q1, q2, v, t, shortestPath, op, res, acc, factors>>

\* Thread th has made every access: it computes and returns its result.
Return(th) ==
  /\ calls[th].ret = Pending /\ calls[th].pc = Len(Steps(calls[th].name))
  /\ calls' = [calls EXCEPT ![th].ret = Result(calls[th])]
  /\ UNCHANGED <<q1, q2, v, t, shortestPath, op, res, acc, factors, heap>>

NextThreads == \E th \in Threads : Load(th) \/ Store(th) \/ Return(th)

SpecThreads == InitThreads /\ [][NextThreads]_vars

\* What call c returns, and the heap it leaves, when it runs alone on heap h.
AloneReturn(h, c) ==
  CASE c.name = "set" -> NoResult
    [] c.name = "copy" -> Vector3_copy(h[c.self])
    [] c.name = "add" -> Vector3_add(h[c.self], h[c.arg])
    [] c.name = "length" -> [float |-> length(h[c.self])]
    [] c.name = "normalize" -> normalize(h[c.self])
    [] c.name = "transform" -> transform(h[c.self], h[c.arg])
AloneHeap(h, c) ==
  IF c.name = "set" THEN [h EXCEPT ![c.self] = Vector3_set(h[c.self], h[c.arg])] ELSE h

\* The calls, run one after another in the given order from heap h, return what the
\* threads returned and leave the heap the threads left.
RECURSIVE AgreesWith(_, _)
AgreesWith(h, order) ==
  IF order = <<>> THEN h = heap
  ELSE The({/\ c.ret = AloneReturn(g, c)
            /\ AgreesWith(AloneHeap(g, c), Tail(order))
            : g \in {h}, c \in {calls[Head(order)]}})

Orders == {o \in [Threads -> Threads] : \A i, j \in Threads : o[i] = o[j] => i = j}
AllReturned == \A th \in Threads : calls[th].ret # Pending
Linearizable == \E o \in Orders : AgreesWith(InitialHeap, o)

\* Object o is partially updated: a set on it has stored one or two of its fields.
PartiallyUpdated(o) ==
  \E u \in Threads :
    calls[u].name = "set" /\ calls[u].self = o /\ calls[u].pc \in {2, 3, 4, 5}

\* No load made in this step reads an object that is partially updated.
NoPartialLoad ==
  \A th \in Threads :
    Running(th) /\ NextStep(th)[1] = "load" /\ calls'[th].pc # calls[th].pc =>
      ~PartiallyUpdated(Target(th))

\* No set runs at the same time as another call that uses its receiver.
NoSharedSet ==
  \A th \in Threads, u \in Threads :
    th # u /\ calls[th].name = "set" => calls[th].self \notin {calls[u].self, calls[u].arg}

\* C12 as stated: in every interleaving of concurrent calls on shared values, no call
\* observes a partially updated value, and each call returns the result it would
\* return in some sequential order of the same calls.
ThreadSafe == [](AllReturned => Linearizable) /\ [][NoPartialLoad]_vars

\* C12 amended: the same holds of the calls in which no set runs at the same time as
\* another call on its receiver; every other operation only loads fields.
ThreadSafeWithoutSharedSet ==
  /\ [](NoSharedSet /\ AllReturned => Linearizable)
  /\ [][NoSharedSet => NoPartialLoad]_vars

\* b.set(c) and a.normalize() ran interleaved and both returned.
ThreadSafeWitness ==
  /\ NoSharedSet /\ AllReturned
  /\ \E th \in Threads, u \in Threads :
       /\ calls[th].name = "set" /\ calls[th].overlapped
       /\ calls[u].name = "normalize" /\ calls[u].overlapped
       /\ heap[calls[th].self] = InitialHeap[calls[th].arg]
       /\ IsVector3(calls[u].ret)

---------------------------------------------------------------------------
(* Shortest path: slerp(q1, q2, t) and slerp(q1, -q2, t) with shortestPath *)
(* set.  res is the first result and acc the second.                       *)

\* The unit quaternions of the slerp runs, an exactly orthogonal pair (1 and i), and
\* two quaternions that are not of unit length and nearly orthogonal: their dot
\* product is 9 - 9 + 1e-17.
ShortestInputs ==
  UnitQuaternions \cup
    {Identity, I, QInt(1, 9, 1, 3), Quaternion(FromInt(9), FromInt(-1), Dec(1, -17), Zero)}

InitShortest ==
  /\ q1 \in ShortestInputs
  /\ q2 \in ShortestInputs
  /\ v = VInt(0, 0, 0) /\ t = Zero /\ shortestPath = TRUE
  /\ op = "init" /\ res = NoResult /\ acc = Identity /\ factors = <<>>
  /\ heap = <<>> /\ calls = <<>>

\* acc = slerp(q1, -q2, t, shortestPath=True), after res = slerp(q1, q2, t)
SlerpNegated ==
  /\ op = "slerp"
  /\ acc' = slerp(q1, Negated(q2), t, TRUE)
  /\ op' = "slerp_negated"
  /\ UNCHANGED <<q1, q2, v, t, shortestPath, res, factors, heap, calls>>

NextShortest == (\E s \in Fractions : Slerp(s, TRUE)) \/ SlerpNegated

SpecShortest == InitShortest /\ [][NextShortest]_vars

\* rotation = q2.multiply(q1.inverse()) of line 32, q2 being the target chosen.
RelativeRotation ==
  The({IF IsRaise(inv) THEN inv ELSE multiply(target, inv)
       : target \in {ShortestPathTarget(q1, q2, TRUE)}, inv \in {inverse(q1)}})

\* With a non-zero dot product the two calls return the same quaternion.
SignIndependent == ~IsZero(Dot4(q1, q2)) => acc = res

\* With a dot product of exactly zero neither target is negated: the calls return
\* what they return with shortestPath clear.
ZeroDotKeepsTargets ==
  IsZero(Dot4(q1, q2)) =>
    /\ ShortestPathTarget(q1, q2, TRUE) = q2
    /\ res = slerp(q1, q2, t, FALSE)
    /\ acc = slerp(q1, Negated(q2), t, FALSE)

\* C13 as stated: with shortestPath set, slerp(q1, q2, t) equals slerp(q1, -q2, t)
\* when the dot product is not zero, the relative rotation passed to power always has
\* a non-negative scalar part, and with a dot product of exactly zero neither q2 nor
\* -q2 is negated.
ShortestPathIgnoresSign ==
  op = "slerp_negated" =>
    /\ SignIndependent
    /\ ZeroDotKeepsTargets
    /\ IsQuaternion(RelativeRotation) /\ FLeq(Zero, RelativeRotation.w)

\* C13 amended: the scalar part of the relative rotation is non-negative up to
\* rounding: it is non-negative, or zero within the tolerance.
ShortestPathIgnoresSignUpToRounding ==
  op = "slerp_negated" =>
    /\ SignIndependent
    /\ ZeroDotKeepsTargets
    /\ IsQuaternion(RelativeRotation)
    /\ \/ FLeq(Zero, RelativeRotation.w)
       \/ Close(RelativeRotation.w, Zero, MagnitudeQ(RelativeRotation))

\* Both calls were made on a pair with a negative dot product: the first negated its
\* target, the second did not, and the rotation is not the identity.
ShortestPathWitness ==
  /\ op = "slerp_negated" /\ NegativeDot /\ t = Half
  /\ IsQuaternion(res) /\ acc = res /\ ~CloseQ(res, q1)
  /\ ShortestPathTarget(q1, q2, TRUE) = Negated(q2)

=============================================================================
